---- MODULE Spec2Model ----
(***************************************************************************)
(* Model of pybind11_protobuf/fast_cpp_proto_casters.h: the proto          *)
(* type_caster (load, as_unique_ptr, conversion operators, cast overloads) *)
(* and the move-only / copyable holder casters built on it.                *)
(***************************************************************************)
EXTENDS Integers, Sequences, FiniteSets, TLC

\* ------------------------------------------------------------------------
\* Bounds
\* ------------------------------------------------------------------------
MaxAlloc == 2   \* native objects the casters may allocate in one behaviour
MaxCasts == 2   \* C++ -> Python casts in one behaviour

\* ------------------------------------------------------------------------
\* Pointers and the native heap
\* ------------------------------------------------------------------------
NullPtr == 0
GarbagePtr == -1

\* Objects that exist before any caster runs.
FastSameObj  == 1   \* message inside a fast_cpp python proto, ProtoType's own reflection
FastOtherObj == 2   \* message inside a fast_cpp python proto, reflection of another pool
NativeObj    == 3   \* message owned by the C++ caller, source of casts
NumPre == 3

Addrs == 1..(NumPre + MaxAlloc)
ForeignBacked == {FastSameObj, FastOtherObj}

ReflA      == "refl:pkg.A"
ReflAOther == "refl:pkg.A@other_pool"
ReflB      == "refl:pkg.B"

FullName == "pkg.A"          \* ProtoType::descriptor()->full_name()
NoName   == "<nullopt>"      \* PyProtoDescriptorName returned std::nullopt
TypeNames == {"pkg.A", "pkg.B", "pkg.Unregistered", NoName}

DefaultInstanceReflection == ReflA   \* ProtoType::default_instance().GetReflection()

FreeCell == [st |-> "free", owner |-> "-", refl |-> "-", val |-> "-", dtors |-> 0]

InitHeap ==
  [a \in Addrs |->
     IF a = FastSameObj
       THEN [st |-> "live", owner |-> "foreign", refl |-> ReflA, val |-> "v1", dtors |-> 0]
     ELSE IF a = FastOtherObj
       THEN [st |-> "live", owner |-> "foreign", refl |-> ReflAOther, val |-> "v1", dtors |-> 0]
     ELSE IF a = NativeObj
       THEN [st |-> "live", owner |-> "native", refl |-> ReflA, val |-> "v1", dtors |-> 0]
     ELSE FreeCell]

\* The memory: heap cells plus the counters of allocations and value copies
\* performed by the casters.
InitMem == [heap |-> InitHeap, allocs |-> 0, copies |-> 0]

NewAddr(m) == NumPre + m.allocs + 1

\* new T() / value->New(): a default-constructed message of the given reflection.
New(m, refl) ==
  [m EXCEPT !.heap[NewAddr(m)] =
              [st |-> "live", owner |-> "core", refl |-> refl, val |-> "default", dtors |-> 0],
            !.allocs = @ + 1]

\* *dst = *src / dst->CopyFrom(*src)
CopyFrom(m, dst, src) ==
  [m EXCEPT !.heap[dst].val = m.heap[src].val, !.copies = @ + 1]

\* delete p (unique_ptr destructor / reset); deleting nullptr is a no-op.
Delete(m, p) ==
  IF p = NullPtr THEN m
  ELSE [m EXCEPT !.heap[p] = [st |-> "dead", owner |-> "-", refl |-> "-", val |-> "-",
                              dtors |-> m.heap[p].dtors + 1]]

\* ------------------------------------------------------------------------
\* Python handles
\* ------------------------------------------------------------------------
NoneHandle == [kind |-> "none", obj |-> NullPtr, name |-> NoName, copyOk |-> FALSE]

FastHandles ==
  { [kind |-> "fast", obj |-> o, name |-> FullName, copyOk |-> TRUE] : o \in ForeignBacked }

PyHandles ==
  { [kind |-> "py", obj |-> NullPtr, name |-> n, copyOk |-> ok] :
      n \in TypeNames \ {NoName}, ok \in BOOLEAN }
    \cup { [kind |-> "py", obj |-> NullPtr, name |-> NoName, copyOk |-> FALSE] }

Handles == {NoneHandle} \cup FastHandles \cup PyHandles

\* handle::is_none()
is_none(src) == src.kind = "none"

\* pybind11_protobuf::PyProtoGetCppMessagePointer: non-null for fast_cpp protos.
PyProtoGetCppMessagePointer(src) == src.obj

\* pybind11_protobuf::PyProtoDescriptorName
PyProtoDescriptorName(src) == src.name

\* pybind11_protobuf::AllocateCProtoByName: the reflection of the message
\* allocated from the C++ default pool, or "-" when the name is not in it.
AllocateCProtoByName(name) ==
  IF name = "pkg.A" THEN ReflA
  ELSE IF name = "pkg.B" THEN ReflB
  ELSE "-"

\* pybind11_protobuf::PyProtoCopyToCProto(src, dst): serialises the python
\* message into *dst; on failure *dst is left partially written.
PyProtoCopyToCProto(m, src, dst) ==
  [ok |-> src.copyOk,
   m  |-> [m EXCEPT !.heap[dst].val = IF src.copyOk THEN "v2" ELSE "partial"]]

\* ------------------------------------------------------------------------
\* proto_caster_load_impl
\* ------------------------------------------------------------------------
\* A caster is the pair of members (value, owned).  `value` has no
\* initialiser, so a default-initialised caster holds an indeterminate pointer.
IndeterminateValues == {NullPtr, GarbagePtr}

\* Faulty variant: the aliased message is copied into a new one on load.
LoadProto_CopiesAlias(c, m, src) ==
  IF is_none(src)
    THEN [ok |-> TRUE, c |-> [c EXCEPT !.value = NullPtr], m |-> m]
  ELSE IF PyProtoGetCppMessagePointer(src) # NullPtr
    THEN LET message == PyProtoGetCppMessagePointer(src) IN
         IF DefaultInstanceReflection # m.heap[message].refl
           THEN [ok |-> FALSE, c |-> c, m |-> m]
           ELSE [ok |-> TRUE, c |-> [value |-> NewAddr(m), owned |-> NewAddr(m)],
                 m |-> CopyFrom(New(m, DefaultInstanceReflection), NewAddr(m), message)]
  ELSE IF PyProtoDescriptorName(src) = NoName \/ PyProtoDescriptorName(src) # FullName
    THEN [ok |-> FALSE, c |-> c, m |-> m]
  ELSE LET a  == NewAddr(m)
           m1 == Delete(New(m, DefaultInstanceReflection), c.owned)
           r  == PyProtoCopyToCProto(m1, src, a)
       IN [ok |-> r.ok, c |-> [value |-> a, owned |-> a], m |-> r.m]

\* Faulty variant: the reflection of the aliased message is not compared.
LoadProto_NoReflectionCheck(c, m, src) ==
  IF is_none(src)
    THEN [ok |-> TRUE, c |-> [c EXCEPT !.value = NullPtr], m |-> m]
  ELSE IF PyProtoGetCppMessagePointer(src) # NullPtr
    THEN [ok |-> TRUE, c |-> [c EXCEPT !.value = PyProtoGetCppMessagePointer(src)], m |-> m]
  ELSE IF PyProtoDescriptorName(src) = NoName \/ PyProtoDescriptorName(src) # FullName
    THEN [ok |-> FALSE, c |-> c, m |-> m]
  ELSE LET a  == NewAddr(m)
           m1 == Delete(New(m, DefaultInstanceReflection), c.owned)
           r  == PyProtoCopyToCProto(m1, src, a)
       IN [ok |-> r.ok, c |-> [value |-> a, owned |-> a], m |-> r.m]

\* proto_caster_load_impl<ProtoType>::load
LoadProto(c, m, src) ==
  IF is_none(src)
    THEN [ok |-> TRUE, c |-> [c EXCEPT !.value = NullPtr], m |-> m]
  ELSE IF PyProtoGetCppMessagePointer(src) # NullPtr
    THEN LET message == PyProtoGetCppMessagePointer(src) IN
         IF DefaultInstanceReflection # m.heap[message].refl
           THEN [ok |-> FALSE, c |-> c, m |-> m]
           ELSE [ok |-> TRUE, c |-> [c EXCEPT !.value = message], m |-> m]
  ELSE IF PyProtoDescriptorName(src) = NoName \/ PyProtoDescriptorName(src) # FullName
    THEN [ok |-> FALSE, c |-> c, m |-> m]
  ELSE LET a  == NewAddr(m)
           m1 == Delete(New(m, DefaultInstanceReflection), c.owned)
           r  == PyProtoCopyToCProto(m1, src, a)
       IN [ok |-> r.ok, c |-> [value |-> a, owned |-> a], m |-> r.m]

\* proto_caster_load_impl<::google::protobuf::Message>::load
LoadMessage(c, m, src) ==
  IF is_none(src)
    THEN [ok |-> TRUE, c |-> [c EXCEPT !.value = NullPtr], m |-> m]
  ELSE IF PyProtoGetCppMessagePointer(src) # NullPtr
    THEN [ok |-> TRUE, c |-> [c EXCEPT !.value = PyProtoGetCppMessagePointer(src)], m |-> m]
  ELSE IF PyProtoDescriptorName(src) = NoName
    THEN [ok |-> FALSE, c |-> [c EXCEPT !.value = NullPtr], m |-> m]
  ELSE IF AllocateCProtoByName(PyProtoDescriptorName(src)) = "-"
    THEN [ok |-> FALSE, c |-> [value |-> NullPtr, owned |-> NullPtr],
          m |-> Delete(m, c.owned)]
  ELSE LET a  == NewAddr(m)
           m1 == Delete(New(m, AllocateCProtoByName(PyProtoDescriptorName(src))),
                        c.owned)
           r  == PyProtoCopyToCProto(m1, src, a)
       IN [ok |-> r.ok, c |-> [value |-> a, owned |-> a], m |-> r.m]

\* load of the caster for template argument T ("Proto" is a concrete generated
\* message type, "Message" the ::google::protobuf::Message specialisation).
CasterTypes == {"Proto", "Message"}
HolderKinds == {"move_only", "copyable"}

Load(T, c, m, src) ==
  IF T = "Proto" THEN LoadProto(c, m, src) ELSE LoadMessage(c, m, src)

\* Faulty variant: the borrowed message itself is put in the unique_ptr.
as_unique_ptr_ReleasesValue(c, m) ==
  IF c.value = NullPtr
    THEN [ret |-> NullPtr, c |-> c, m |-> m]
  ELSE IF c.owned = NullPtr
    THEN [ret |-> c.value, c |-> c, m |-> m]
  ELSE [ret |-> c.owned, c |-> [c EXCEPT !.owned = NullPtr], m |-> m]

\* proto_caster_load_impl::as_unique_ptr (both specialisations have the same
\* body up to operator= versus CopyFrom).
as_unique_ptr(c, m) ==
  IF c.value = NullPtr
    THEN [ret |-> NullPtr, c |-> c, m |-> m]
  ELSE IF c.owned = NullPtr
    THEN LET a  == NewAddr(m)
             m1 == CopyFrom(New(m, m.heap[c.value].refl), a, c.value)
         IN [ret |-> a, c |-> [c EXCEPT !.owned = NullPtr], m |-> m1]
  ELSE [ret |-> c.owned, c |-> [c EXCEPT !.owned = NullPtr], m |-> m]

\* ------------------------------------------------------------------------
\* State
\* ------------------------------------------------------------------------
VARIABLES
  dir,      \* the conversion under way: "py2cpp" (load side) or "cpp2py" (cast side)
  mem,      \* native heap and allocation / copy counters
  ctype,    \* template argument of the stand-alone type_caster
  pc,       \* "fresh" (constructed), "loaded" (load returned true), "failed"
  value,    \* proto_caster_load_impl::value
  owned,    \* proto_caster_load_impl::owned
  hsrc,     \* the handle the caster was loaded from
  hkind,    \* which holder caster is live: "move_only" or "copyable"
  holder,   \* its member `holder`
  pyobjs,   \* python objects produced by casts, in order
  last      \* the most recent call and what it returned

vars == <<dir, mem, ctype, pc, value, owned, hsrc, hkind, holder, pyobjs, last>>

NoCall ==
  [op |-> "-", ok |-> TRUE, ret |-> NullPtr, mutable |-> FALSE, owning |-> FALSE,
   raised |-> "-", requested |-> "-", prim |-> "-", is_const |-> FALSE,
   src |-> NullPtr, outcome |-> "-", allocd |-> 0, copied |-> 0, handle |-> NoneHandle]

Directions == {"py2cpp", "cpp2py"}

\* Python -> C++ starts from default-initialised casters; the cast overloads
\* are static, so C++ -> Python starts with no caster object at all.
Init ==
  /\ dir \in Directions
  /\ mem = InitMem
  /\ \/ /\ dir = "py2cpp"
        /\ ctype \in CasterTypes
        /\ value \in IndeterminateValues
        /\ hkind \in HolderKinds
     \/ /\ dir = "cpp2py"
        /\ ctype = "Proto"
        /\ value = NullPtr
        /\ hkind = "copyable"
  /\ pc = "fresh"
  /\ owned = NullPtr
  /\ hsrc = NoneHandle
  /\ holder = NullPtr
  /\ pyobjs = <<>>
  /\ last = NoCall

\* type_caster<T> caster;  -- the previous caster goes out of scope (its
\* unique_ptr deletes what it still owns) and a new one is default-initialised.
NewCaster ==
  /\ dir = "py2cpp"
  /\ pc # "fresh"
  /\ \E T \in CasterTypes, v \in IndeterminateValues :
       /\ ctype' = T
       /\ value' = v
  /\ owned' = NullPtr
  /\ pc' = "fresh"
  /\ hsrc' = NoneHandle
  /\ mem' = Delete(mem, owned)
  /\ last' = [NoCall EXCEPT !.op = "new_caster"]
  /\ UNCHANGED <<dir, hkind, holder, pyobjs>>

\* caster.load(handle, convert)
DoLoad ==
  /\ dir = "py2cpp"
  /\ pc = "fresh"
  /\ mem.allocs < MaxAlloc
  /\ \E src \in Handles :
       LET r == Load(ctype, [value |-> value, owned |-> owned], mem, src) IN
       /\ value' = r.c.value
       /\ owned' = r.c.owned
       /\ mem' = r.m
       /\ pc' = IF r.ok THEN "loaded" ELSE "failed"
       /\ hsrc' = src
       /\ last' = [NoCall EXCEPT !.op = "load", !.ok = r.ok, !.handle = src,
                                 !.allocd = r.m.allocs - mem.allocs,
                                 !.copied = r.m.copies - mem.copies]
  /\ UNCHANGED <<dir, ctype, hkind, holder, pyobjs>>

\* caster.as_unique_ptr(): the returned std::unique_ptr belongs to the caller.
DoAsUniquePtr ==
  /\ dir = "py2cpp"
  /\ pc = "loaded"
  /\ mem.allocs < MaxAlloc
  /\ LET r == as_unique_ptr([value |-> value, owned |-> owned], mem) IN
       /\ value' = r.c.value
       /\ owned' = r.c.owned
       /\ mem' = r.m
       /\ last' = [NoCall EXCEPT !.op = "as_unique_ptr", !.ret = r.ret,
                                 !.mutable = (r.ret # NullPtr), !.owning = (r.ret # NullPtr),
                                 !.allocd = r.m.allocs - mem.allocs,
                                 !.copied = r.m.copies - mem.copies]
  /\ UNCHANGED <<dir, ctype, pc, hsrc, hkind, holder, pyobjs>>

\* ------------------------------------------------------------------------
\* proto_caster conversion operators (PYBIND11_TYPE_CASTER section)
\* ------------------------------------------------------------------------
PYBIND11_PROTOBUF_UNSAFE == 0

\* cast_op_type: the parameter types for which a conversion operator exists.
CastOpTypes ==
  {"const ProtoType *", "const ProtoType &", "ProtoType &&"}
    \cup (IF PYBIND11_PROTOBUF_UNSAFE # 0 THEN {"ProtoType *", "ProtoType &"} ELSE {})

\* explicit operator const ProtoType *()
op_const_ptr(c, m) ==
  [raised |-> "-", ret |-> c.value, mutable |-> FALSE, c |-> c, m |-> m]

\* explicit operator const ProtoType &()
op_const_ref(c, m) ==
  IF c.value = NullPtr
    THEN [raised |-> "reference_cast_error", ret |-> NullPtr, mutable |-> FALSE,
          c |-> c, m |-> m]
    ELSE [raised |-> "-", ret |-> c.value, mutable |-> FALSE, c |-> c, m |-> m]

\* Faulty variant: every rvalue request makes a new copy.
op_rvalue_AlwaysCopies(c, m) ==
  IF c.value = NullPtr
    THEN [raised |-> "reference_cast_error", ret |-> NullPtr, mutable |-> FALSE,
          c |-> c, m |-> m]
  ELSE LET a  == NewAddr(m)
           m1 == CopyFrom(Delete(New(m, m.heap[c.value].refl), c.owned), a, c.value)
       IN [raised |-> "-", ret |-> a, mutable |-> TRUE,
           c |-> [c EXCEPT !.owned = a], m |-> m1]

\* explicit operator ProtoType &&() &&
op_rvalue(c, m) ==
  IF c.value = NullPtr
    THEN [raised |-> "reference_cast_error", ret |-> NullPtr, mutable |-> FALSE,
          c |-> c, m |-> m]
  ELSE IF c.owned = NullPtr
    THEN LET a  == NewAddr(m)
             m1 == CopyFrom(New(m, m.heap[c.value].refl), a, c.value)
         IN [raised |-> "-", ret |-> a, mutable |-> TRUE,
             c |-> [c EXCEPT !.owned = a], m |-> m1]
  ELSE [raised |-> "-", ret |-> c.owned, mutable |-> TRUE, c |-> c, m |-> m]

\* explicit operator ProtoType *() / ProtoType &()  (#if PYBIND11_PROTOBUF_UNSAFE)
op_unsafe(T_, c, m) ==
  IF T_ = "ProtoType &" /\ c.value = NullPtr
    THEN [raised |-> "reference_cast_error", ret |-> NullPtr, mutable |-> FALSE,
          c |-> c, m |-> m]
    ELSE [raised |-> "-", ret |-> c.value, mutable |-> (c.value # NullPtr),
          c |-> c, m |-> m]

cast_op(T_, c, m) ==
  IF T_ = "const ProtoType *" THEN op_const_ptr(c, m)
  ELSE IF T_ = "const ProtoType &" THEN op_const_ref(c, m)
  ELSE IF T_ = "ProtoType &&" THEN op_rvalue(c, m)
  ELSE op_unsafe(T_, c, m)

\* pybind11::detail::cast_op<T_>(caster)
DoCastOp ==
  /\ dir = "py2cpp"
  /\ pc = "loaded"
  /\ mem.allocs < MaxAlloc
  /\ \E T_ \in CastOpTypes :
       LET r == cast_op(T_, [value |-> value, owned |-> owned], mem) IN
       /\ value' = r.c.value
       /\ owned' = r.c.owned
       /\ mem' = r.m
       /\ last' = [NoCall EXCEPT !.op = T_, !.ret = r.ret, !.raised = r.raised,
                                 !.mutable = r.mutable,
                                 !.allocd = r.m.allocs - mem.allocs,
                                 !.copied = r.m.copies - mem.copies]
  /\ UNCHANGED <<dir, ctype, pc, hsrc, hkind, holder, pyobjs>>

\* ------------------------------------------------------------------------
\* Holder casters, Python -> C++
\* ------------------------------------------------------------------------
\* move_only_holder_caster::load.  `base` is a local caster: it is
\* default-initialised on entry and destroyed on return; assigning to
\* `holder` releases what the holder held before.
move_only_holder_caster_load(T, base, m, src, h0) ==
  LET r == Load(T, base, m, src) IN
  IF ~r.ok
    THEN [ok |-> FALSE, holder |-> h0, m |-> Delete(r.m, r.c.owned)]
    ELSE LET u == as_unique_ptr(r.c, r.m) IN
         [ok |-> TRUE, holder |-> u.ret,
          m |-> Delete(Delete(u.m, h0), u.c.owned)]

\* copyable_holder_caster::load
copyable_holder_caster_load(T, base, m, src, h0) ==
  LET r == Load(T, base, m, src) IN
  IF ~r.ok
    THEN [ok |-> FALSE, holder |-> h0, m |-> Delete(r.m, r.c.owned)]
    ELSE LET u == as_unique_ptr(r.c, r.m) IN
         [ok |-> TRUE, holder |-> u.ret,
          m |-> Delete(Delete(u.m, h0), u.c.owned)]

MoveOnlyHolderLoad ==
  /\ dir = "py2cpp"
  /\ hkind = "move_only"
  /\ mem.allocs < MaxAlloc
  /\ \E T \in CasterTypes, v \in IndeterminateValues, src \in Handles :
       LET r == move_only_holder_caster_load(T, [value |-> v, owned |-> NullPtr],
                                             mem, src, holder) IN
       /\ holder' = r.holder
       /\ mem' = r.m
       /\ last' = [NoCall EXCEPT !.op = "move_only_holder_caster::load", !.ok = r.ok,
                                 !.ret = IF r.ok THEN r.holder ELSE NullPtr,
                                 !.owning = (r.ok /\ r.holder # NullPtr),
                                 !.mutable = (r.ok /\ r.holder # NullPtr),
                                 !.handle = src,
                                 !.allocd = r.m.allocs - mem.allocs,
                                 !.copied = r.m.copies - mem.copies]
  /\ UNCHANGED <<dir, ctype, pc, value, owned, hsrc, hkind, pyobjs>>

CopyableHolderLoad ==
  /\ dir = "py2cpp"
  /\ hkind = "copyable"
  /\ mem.allocs < MaxAlloc
  /\ \E T \in CasterTypes, v \in IndeterminateValues, src \in Handles :
       LET r == copyable_holder_caster_load(T, [value |-> v, owned |-> NullPtr],
                                            mem, src, holder) IN
       /\ holder' = r.holder
       /\ mem' = r.m
       /\ last' = [NoCall EXCEPT !.op = "copyable_holder_caster::load", !.ok = r.ok,
                                 !.ret = IF r.ok THEN r.holder ELSE NullPtr,
                                 !.owning = (r.ok /\ r.holder # NullPtr),
                                 !.mutable = (r.ok /\ r.holder # NullPtr),
                                 !.handle = src,
                                 !.allocd = r.m.allocs - mem.allocs,
                                 !.copied = r.m.copies - mem.copies]
  /\ UNCHANGED <<dir, ctype, pc, value, owned, hsrc, hkind, pyobjs>>

\* A holder caster is constructed for the next argument; the previous one is
\* destroyed together with what its holder still owns.
NewHolderCaster ==
  /\ dir = "py2cpp"
  /\ last.op \in {"move_only_holder_caster::load", "copyable_holder_caster::load"}
  /\ \E k \in HolderKinds : hkind' = k
  /\ holder' = NullPtr
  /\ mem' = Delete(mem, holder)
  /\ last' = [NoCall EXCEPT !.op = "new_holder_caster"]
  /\ UNCHANGED <<dir, ctype, pc, value, owned, hsrc, pyobjs>>

\* ------------------------------------------------------------------------
\* C++ -> Python: cast_impl and the cast overloads
\* ------------------------------------------------------------------------
Policies ==
  {"automatic", "automatic_reference", "take_ownership", "copy", "move",
   "reference", "reference_internal"}

\* pybind11_protobuf::GenericFastCppProtoCast(src, policy, parent, is_const):
\* an aliasing wrapper for the reference policies, an independent python
\* message otherwise; it may raise (python-side allocation or import failure).
GenericFastCppProtoCast(src, policy, is_const, primOk) ==
  IF ~primOk THEN [raised |-> "cast_error", outcome |-> "-"]
  ELSE IF policy \in {"reference", "reference_internal", "automatic_reference"}
    THEN [raised |-> "-", outcome |-> "alias"]
  ELSE [raised |-> "-", outcome |-> "copy"]

\* The type_error thrown by cast_impl.
ConstReferenceError ==
  "type_error: Cannot return a const reference to a ::google::protobuf::Message derived type.  Consider setting return_value_policy::copy in the pybind11 def()."

\* Faulty variant: the const check is missing.
cast_impl_NoConstCheck(src, policy, is_const, primOk) ==
  IF src = NullPtr
    THEN [raised |-> "-", outcome |-> "none", prim |-> "-", is_const |-> is_const]
  ELSE LET g == GenericFastCppProtoCast(src, policy, is_const, primOk) IN
       [raised |-> g.raised, outcome |-> g.outcome, prim |-> policy, is_const |-> is_const]

\* Faulty variant: the const check comes before the null check.
cast_impl_ConstCheckFirst(src, policy, is_const, primOk) ==
  IF is_const /\ (policy = "reference" \/ policy = "reference_internal")
    THEN [raised |-> ConstReferenceError, outcome |-> "-", prim |-> "-", is_const |-> is_const]
  ELSE IF src = NullPtr
    THEN [raised |-> "-", outcome |-> "none", prim |-> "-", is_const |-> is_const]
  ELSE LET g == GenericFastCppProtoCast(src, policy, is_const, primOk) IN
       [raised |-> g.raised, outcome |-> g.outcome, prim |-> policy, is_const |-> is_const]

\* fast_cpp_cast_impl::cast_impl
cast_impl(src, policy, is_const, primOk) ==
  IF src = NullPtr
    THEN [raised |-> "-", outcome |-> "none", prim |-> "-", is_const |-> is_const]
  ELSE IF is_const /\ (policy = "reference" \/ policy = "reference_internal")
    THEN [raised |-> ConstReferenceError, outcome |-> "-", prim |-> "-", is_const |-> is_const]
  ELSE LET g == GenericFastCppProtoCast(src, policy, is_const, primOk) IN
       [raised |-> g.raised, outcome |-> g.outcome, prim |-> policy, is_const |-> is_const]

\* Faulty variant: the requested policy is kept as it is.
Normalize_Identity(policy) == policy

\* if (policy == automatic || policy == automatic_reference) policy = copy;
Normalize(policy) ==
  IF policy = "automatic" \/ policy = "automatic_reference" THEN "copy" ELSE policy

\* Each overload yields the result of cast_impl and the pointer its local
\* std::unique_ptr wrapper deletes on scope exit (NullPtr: nothing).
\* static handle cast(ProtoType &&src, ...)
cast_rvalue(src, policy, primOk) ==
  [r |-> cast_impl(src, "copy", FALSE, primOk), wrapper |-> NullPtr]

\* static handle cast(const ProtoType *src, ...)
cast_const_ptr(src, policy, primOk) ==
  [r |-> cast_impl(src, Normalize(policy), TRUE, primOk), wrapper |-> NullPtr]

\* Faulty variant: take_ownership is resolved to copy but the source is not
\* put in the unique_ptr wrapper.
cast_ptr_NoWrapper(src, policy, primOk) ==
  LET p1 == Normalize(policy) IN
  IF p1 = "take_ownership"
    THEN [r |-> cast_impl(src, "copy", FALSE, primOk), wrapper |-> NullPtr]
    ELSE [r |-> cast_impl(src, p1, FALSE, primOk), wrapper |-> NullPtr]

\* static handle cast(ProtoType *src, ...)
cast_ptr(src, policy, primOk) ==
  LET p1 == Normalize(policy) IN
  IF p1 = "take_ownership"
    THEN [r |-> cast_impl(src, "copy", FALSE, primOk), wrapper |-> src]
    ELSE [r |-> cast_impl(src, p1, FALSE, primOk), wrapper |-> NullPtr]

\* static handle cast(ProtoType const &src, ...)
cast_const_ref(src, policy, primOk) ==
  [r |-> cast_impl(src, "copy", TRUE, primOk), wrapper |-> NullPtr]

\* static handle cast(ProtoType &src, ...)
cast_ref(src, policy, primOk) ==
  [r |-> cast_impl(src, Normalize(policy), FALSE, primOk), wrapper |-> NullPtr]

NoneResult ==
  [r |-> [raised |-> "-", outcome |-> "none", prim |-> "-", is_const |-> FALSE],
   wrapper |-> NullPtr]

\* move_only_holder_caster::cast: std::move(*ptr) selects the rvalue overload,
\* or the const-reference overload when the holder's element type is const.
move_only_holder_caster_cast(ptr, policy, primOk, const_element) ==
  IF ptr = NullPtr THEN NoneResult
  ELSE IF const_element THEN cast_const_ref(ptr, "move", primOk)
  ELSE cast_rvalue(ptr, "move", primOk)

\* Faulty variant: the held pointer is cast with the requested policy.
copyable_holder_caster_cast_KeepsPolicy(ptr, policy, primOk) ==
  IF ptr = NullPtr THEN NoneResult
  ELSE cast_ref(ptr, policy, primOk)

\* copyable_holder_caster::cast: *ptr is a const lvalue.
copyable_holder_caster_cast(ptr, policy, primOk) ==
  IF ptr = NullPtr THEN NoneResult
  ELSE cast_const_ref(ptr, "copy", primOk)

\* Messages the C++ caller can pass to a cast.
LiveNative == {a \in Addrs : mem.heap[a].st = "live" /\ mem.heap[a].owner = "native"}

\* Common tail of every cast action: record the produced python object and
\* run the destructors of the overload's locals.
Return(op, src, policy, c) ==
  /\ pyobjs' = IF c.r.outcome \in {"copy", "alias"}
                 THEN Append(pyobjs, [by |-> op, src |-> src,
                                      alias |-> IF c.r.outcome = "alias" THEN src ELSE NullPtr,
                                      keep_alive |-> (c.r.prim = "reference_internal")])
                 ELSE pyobjs
  /\ mem' = Delete(mem, c.wrapper)
  /\ last' = [NoCall EXCEPT !.op = op, !.src = src, !.requested = policy,
                            !.prim = c.r.prim, !.is_const = c.r.is_const,
                            !.raised = c.r.raised, !.outcome = c.r.outcome,
                            !.ret = IF c.r.outcome \in {"copy", "alias"}
                                      THEN Len(pyobjs) + 1 ELSE 0]
  /\ UNCHANGED <<dir, ctype, pc, value, owned, hsrc, hkind, holder>>

CanCast == dir = "cpp2py" /\ Len(pyobjs) < MaxCasts

CastRvalue ==
  /\ CanCast
  /\ \E src \in LiveNative, policy \in Policies, primOk \in BOOLEAN :
       Return("cast(ProtoType &&)", src, policy, cast_rvalue(src, policy, primOk))

CastConstPtr ==
  /\ CanCast
  /\ \E src \in LiveNative \cup {NullPtr}, policy \in Policies, primOk \in BOOLEAN :
       Return("cast(const ProtoType *)", src, policy, cast_const_ptr(src, policy, primOk))

CastPtr ==
  /\ CanCast
  /\ \E src \in LiveNative \cup {NullPtr}, policy \in Policies, primOk \in BOOLEAN :
       Return("cast(ProtoType *)", src, policy, cast_ptr(src, policy, primOk))

CastConstRef ==
  /\ CanCast
  /\ \E src \in LiveNative, policy \in Policies, primOk \in BOOLEAN :
       Return("cast(ProtoType const &)", src, policy, cast_const_ref(src, policy, primOk))

CastRef ==
  /\ CanCast
  /\ \E src \in LiveNative, policy \in Policies, primOk \in BOOLEAN :
       Return("cast(ProtoType &)", src, policy, cast_ref(src, policy, primOk))

MoveOnlyHolderCast ==
  /\ CanCast
  /\ \E ptr \in LiveNative \cup {NullPtr}, policy \in Policies, primOk \in BOOLEAN,
        const_element \in BOOLEAN :
       Return("move_only_holder_caster::cast", ptr, policy,
              move_only_holder_caster_cast(ptr, policy, primOk, const_element))

CopyableHolderCast ==
  /\ CanCast
  /\ \E ptr \in LiveNative \cup {NullPtr}, policy \in Policies, primOk \in BOOLEAN :
       Return("copyable_holder_caster::cast", ptr, policy,
              copyable_holder_caster_cast(ptr, policy, primOk))

CastNext ==
  \/ CastRvalue
  \/ CastConstPtr
  \/ CastPtr
  \/ CastConstRef
  \/ CastRef
  \/ MoveOnlyHolderCast
  \/ CopyableHolderCast

LoadNext ==
  \/ NewHolderCaster
  \/ NewCaster
  \/ DoLoad
  \/ DoAsUniquePtr
  \/ DoCastOp
  \/ MoveOnlyHolderLoad
  \/ CopyableHolderLoad

Next == LoadNext \/ CastNext

Spec == Init /\ [][Next]_vars

\* ------------------------------------------------------------------------
\* Vocabulary of the properties
\* ------------------------------------------------------------------------
PtrCasts == {"cast(const ProtoType *)", "cast(ProtoType *)"}
RefCasts == {"cast(ProtoType &&)", "cast(ProtoType const &)", "cast(ProtoType &)"}
HolderCasts == {"move_only_holder_caster::cast", "copyable_holder_caster::cast"}
CastCalls == PtrCasts \cup RefCasts \cup HolderCasts
HolderLoads == {"move_only_holder_caster::load", "copyable_holder_caster::load"}
Promotions == {"as_unique_ptr", "ProtoType &&"}
ReferencePolicies == {"reference", "reference_internal"}
AutomaticPolicies == {"automatic", "automatic_reference"}

IsCast == last.op \in CastCalls
IsLoad == last.op = "load"
Mismatch(h) == h.kind = "fast" /\ InitHeap[h.obj].refl # DefaultInstanceReflection
Compatible(h) == h.kind = "fast" /\ InitHeap[h.obj].refl = DefaultInstanceReflection

\* ------------------------------------------------------------------------
\* C1  Const-safety.  A non-null const-qualified source is never exposed as
\* an aliasing reference: with policy reference / reference_internal the
\* const-pointer overload raises the type error that suggests
\* return_value_policy::copy and never reaches GenericFastCppProtoCast, and no
\* python object aliases a source that was cast through a const entry point.
\* ------------------------------------------------------------------------
C1_ConstSafety ==
  /\ (IsCast /\ last.is_const /\ last.src # NullPtr) =>
        /\ last.outcome # "alias"
        /\ last.prim \notin ReferencePolicies
  /\ (last.op = "cast(const ProtoType *)" /\ last.src # NullPtr
        /\ last.requested \in ReferencePolicies) =>
        /\ last.raised = ConstReferenceError
        /\ last.prim = "-"
        /\ last.ret = 0
  /\ \A i \in DOMAIN pyobjs :
        pyobjs[i].by \in {"cast(const ProtoType *)", "cast(ProtoType const &)",
                          "copyable_holder_caster::cast"}
          => pyobjs[i].alias = NullPtr

C1_Witness ==
  /\ last.op = "cast(const ProtoType *)"
  /\ last.src = NativeObj
  /\ last.requested = "reference_internal"
  /\ last.raised = ConstReferenceError

\* ------------------------------------------------------------------------
\* C2  (as claimed) Whenever load returns false, nothing was raised and the
\* caster is Empty: no owned object is held and value points to no message
\* (it is null, or was never assigned), so no half-populated message is
\* reachable from the caster.
\* ------------------------------------------------------------------------
C2_FailedLoadLeavesEmpty ==
  (IsLoad /\ ~last.ok) => (last.raised = "-" /\ owned = NullPtr /\ value \notin Addrs)

\* ------------------------------------------------------------------------
\* C3  Zero-copy aliasing.  load of a handle backed by a native message of the
\* expected reflection returns true without allocating or copying: value is
\* the aliased pointer and owned stays null.  as_unique_ptr right after that
\* load allocates exactly once, copies exactly once, and returns an object
\* distinct from the aliased one carrying the same contents.
\* ------------------------------------------------------------------------
C3_LoadAliases ==
  (IsLoad /\ (Compatible(last.handle) \/ (ctype = "Message" /\ last.handle.kind = "fast"))) =>
     /\ last.ok
     /\ last.allocd = 0 /\ last.copied = 0
     /\ value = last.handle.obj
     /\ owned = NullPtr

C3_PromoteCopiesOnce ==
  (IsLoad /\ last.ok /\ last.handle.kind = "fast" /\ last'.op = "as_unique_ptr") =>
     /\ last'.allocd = 1 /\ last'.copied = 1
     /\ last'.ret \notin {NullPtr, value}
     /\ last'.ret \notin ForeignBacked
     /\ mem'.heap[last'.ret].val = mem.heap[value].val
     /\ mem'.heap[last'.ret].refl = mem.heap[value].refl

C3_ZeroCopyAliasing == []C3_LoadAliases /\ [][C3_PromoteCopiesOnce]_vars

C3_Witness ==
  /\ last.op = "as_unique_ptr"
  /\ hsrc.kind = "fast"
  /\ last.allocd = 1 /\ last.copied = 1
  /\ mem.allocs = 1
  /\ value = hsrc.obj

\* ------------------------------------------------------------------------
\* C4  Policy normalisation.  automatic / automatic_reference never reaches
\* cast_impl's const check or the primitive: such a request is cast as copy
\* and never raises the const-reference error.  A python object aliases its
\* source only when reference or reference_internal was requested, and the
\* rvalue and const-reference overloads cast with copy whatever was requested.
\* ------------------------------------------------------------------------
C4_PolicyNormalization ==
  IsCast =>
    /\ last.prim \notin AutomaticPolicies
    /\ (last.requested \in AutomaticPolicies /\ last.src # NullPtr) =>
          /\ last.prim = "copy"
          /\ last.raised # ConstReferenceError
          /\ last.outcome \in {"copy", "-"}
    /\ last.outcome = "alias" => last.requested \in ReferencePolicies
    /\ last.op \in {"cast(ProtoType &&)", "cast(ProtoType const &)"} =>
          /\ last.prim = "copy"
          /\ last.raised # ConstReferenceError
          /\ (last.raised = "-" => last.outcome = "copy")

C4_Witness ==
  /\ last.op = "cast(const ProtoType *)"
  /\ last.requested = "automatic_reference"
  /\ last.src = NativeObj
  /\ last.outcome = "copy"

\* ------------------------------------------------------------------------
\* C5  The shared adapter never aliases.  copyable_holder_caster::cast of a
\* non-null holder casts with policy copy whatever was requested, so every
\* python object it produces is independent of the native message (two casts
\* of one pointer give two independent objects); copyable_holder_caster::load
\* puts in the holder the object returned by as_unique_ptr, a message
\* allocated by the caster and never the one backing the python handle.
\* ------------------------------------------------------------------------
C5_SharedNeverAliases ==
  /\ (last.op = "copyable_holder_caster::cast" /\ last.src # NullPtr) =>
        /\ last.prim = "copy"
        /\ last.raised # ConstReferenceError
        /\ (last.raised = "-" => last.outcome = "copy")
  /\ \A i \in DOMAIN pyobjs :
        pyobjs[i].by = "copyable_holder_caster::cast" => pyobjs[i].alias = NullPtr
  /\ (last.op = "copyable_holder_caster::load" /\ last.ok) =>
        /\ holder \notin ForeignBacked
        /\ is_none(last.handle) <=> holder = NullPtr
        /\ holder # NullPtr =>
              /\ mem.heap[holder].st = "live"
              /\ mem.heap[holder].owner = "core"
        /\ last.handle.kind = "fast" =>
              /\ last.allocd = 1 /\ last.copied = 1
              /\ mem.heap[holder].val = mem.heap[last.handle.obj].val

C5_Witness ==
  /\ Len(pyobjs) = 2
  /\ \A i \in {1, 2} :
        /\ pyobjs[i].by = "copyable_holder_caster::cast"
        /\ pyobjs[i].src = NativeObj
        /\ pyobjs[i].alias = NullPtr
  /\ last.requested = "reference"

\* ------------------------------------------------------------------------
\* C6  Null round trip.  load(None) returns true and leaves value null with
\* nothing owned; as_unique_ptr then returns null without allocating, and a
\* holder load of None leaves the holder empty.  A cast of a null pointer or
\* of an empty holder gives None for every policy and constness: it neither
\* raises nor reaches the primitive.
\* ------------------------------------------------------------------------
C6_NullRoundTrip ==
  /\ (IsLoad /\ is_none(last.handle)) =>
        /\ last.ok
        /\ value = NullPtr /\ owned = NullPtr
        /\ last.allocd = 0
  /\ (last.op = "as_unique_ptr" /\ is_none(hsrc)) =>
        /\ last.ret = NullPtr
        /\ last.allocd = 0
        /\ owned = NullPtr
  /\ (last.op \in HolderLoads /\ is_none(last.handle)) =>
        /\ last.ok
        /\ holder = NullPtr
        /\ last.allocd = 0
  /\ (IsCast /\ last.src = NullPtr) =>
        /\ last.outcome = "none"
        /\ last.raised = "-"
        /\ last.prim = "-"
        /\ last.ret = 0

C6_Witness ==
  /\ last.op = "cast(const ProtoType *)"
  /\ last.src = NullPtr
  /\ last.requested = "reference"
  /\ last.outcome = "none"

\* ------------------------------------------------------------------------
\* C7  (as claimed) In every cast overload a requested move or take_ownership
\* is resolved to copy before the primitive is invoked, and take_ownership on
\* a mutable pointer destroys the source exactly once.
\* ------------------------------------------------------------------------
C7_MoveAlwaysResolvedToCopy ==
  (IsCast /\ last.requested \in {"move", "take_ownership"} /\ last.src # NullPtr) =>
     /\ last.prim \notin {"move", "take_ownership"}
     /\ (last.op = "cast(ProtoType *)" /\ last.requested = "take_ownership") =>
           (mem.heap[last.src].st = "dead" /\ mem.heap[last.src].dtors = 1)

\* C7 (amended)  move / take_ownership reaches the primitive as copy in the
\* rvalue and const-reference overloads and in the holder casts, and for
\* take_ownership in the mutable-pointer overload; the const-pointer and
\* mutable-reference overloads, and the mutable-pointer overload for move,
\* hand the requested policy to the primitive unchanged.  take_ownership on a
\* non-null mutable pointer deletes the source exactly once when the cast
\* returns or raises; no other cast deletes its source.
C7_MoveResolution ==
  (IsCast /\ last.src # NullPtr) =>
     /\ last.op \in {"cast(ProtoType &&)", "cast(ProtoType const &)"} \cup HolderCasts =>
           last.prim = "copy"
     /\ (last.op = "cast(ProtoType *)" /\ last.requested = "take_ownership") =>
           /\ last.prim = "copy"
           /\ last.raised \in {"-", "cast_error"}
           /\ mem.heap[last.src].st = "dead"
           /\ mem.heap[last.src].dtors = 1
     /\ (last.requested \in {"move", "take_ownership"}
           /\ last.op \in {"cast(const ProtoType *)", "cast(ProtoType &)", "cast(ProtoType *)"}
           /\ ~(last.op = "cast(ProtoType *)" /\ last.requested = "take_ownership")) =>
           last.prim = last.requested
     /\ ~(last.op = "cast(ProtoType *)" /\ last.requested = "take_ownership") =>
           /\ mem.heap[last.src].st = "live"
           /\ mem.heap[last.src].dtors = 0

C7_Witness ==
  /\ last.op = "cast(ProtoType *)"
  /\ last.requested = "take_ownership"
  /\ last.src = NativeObj
  /\ last.raised = "cast_error"
  /\ mem.heap[NativeObj].st = "dead"

\* ------------------------------------------------------------------------
\* C8  (as claimed) When the aliased message has another reflection, load
\* goes on to the fallback path (type-name check, allocation, copy) instead of
\* using the aliased pointer.  The handles of the model that alias such a
\* message report the expected type name and serialise, so the fallback path
\* would succeed with an owned message.
\* ------------------------------------------------------------------------
C8_MismatchFallsBack ==
  (IsLoad /\ ctype = "Proto" /\ Mismatch(last.handle)) =>
     /\ last.ok
     /\ last.allocd = 1
     /\ owned # NullPtr /\ value = owned

\* C8 (amended)  In the exact-type caster a reflection mismatch makes load
\* return false at once: no type-name check, allocation or copy follows and
\* value keeps what it held before; that caster never holds a pointer to a
\* message of another reflection.  The ::google::protobuf::Message caster
\* compares no reflection and borrows whatever pointer the primitive returns.
C8_MismatchRejected ==
  /\ (IsLoad /\ ctype = "Proto" /\ Mismatch(last.handle)) =>
        /\ ~last.ok
        /\ last.allocd = 0 /\ last.copied = 0
        /\ owned = NullPtr
        /\ value \in IndeterminateValues
  /\ (ctype = "Proto" /\ value \in Addrs /\ mem.heap[value].st = "live") =>
        mem.heap[value].refl = DefaultInstanceReflection
  /\ (IsLoad /\ ctype = "Message" /\ Mismatch(last.handle)) =>
        /\ last.ok
        /\ value = last.handle.obj
        /\ last.allocd = 0

C8_Witness ==
  /\ IsLoad /\ ctype = "Proto" /\ Mismatch(last.handle)
  /\ ~last.ok
  /\ pc = "failed"

\* ------------------------------------------------------------------------
\* C9  (as claimed) After a successful load of a non-null handle, a second
\* promotion request returns the same owned object as the first and
\* allocates nothing.
\* ------------------------------------------------------------------------
C9_Step ==
  (pc = "loaded" /\ ~is_none(hsrc) /\ last.op \in Promotions /\ last'.op \in Promotions) =>
     /\ last'.ret = last.ret
     /\ last'.allocd = 0

C9_PromotionIdempotent == [][C9_Step]_vars

\* C9 (amended)  The rvalue conversion operator creates the owned copy at
\* most once: while the caster owns a copy the operator returns that object
\* and allocates nothing.  as_unique_ptr moves the owned object out of the
\* caster (owned is null afterwards), so the promotion request that follows
\* it allocates a further copy, read through value.
C9_RvalueStep ==
  (pc = "loaded" /\ owned # NullPtr /\ last'.op = "ProtoType &&") =>
     /\ owned' = owned
     /\ last'.ret = owned
     /\ last'.allocd = 0

C9_AfterTransferStep ==
  (last.op = "as_unique_ptr" /\ last.ret # NullPtr /\ last'.op \in Promotions) =>
     /\ last'.allocd = 1 /\ last'.copied = 1
     /\ last'.ret \notin {NullPtr, last.ret}

C9_PromotionKeptOrTransferred ==
  /\ [](last.op = "as_unique_ptr" => owned = NullPtr)
  /\ [][C9_RvalueStep /\ C9_AfterTransferStep]_vars

C9_Witness ==
  /\ last.op = "ProtoType &&"
  /\ hsrc.kind = "fast"
  /\ value = hsrc.obj
  /\ owned # NullPtr
  /\ last.ret = owned
  /\ last.allocd = 0
  /\ mem.allocs = 1

\* ------------------------------------------------------------------------
\* C10  Borrowed messages are only read.  The messages backing python handles
\* are never written or deleted; the caster and the holders own only messages
\* the casters allocated; whatever is handed to the C++ caller as an owner, an
\* rvalue or a mutable pointer is such a separately allocated message.
\* ------------------------------------------------------------------------
C10_BorrowedOnlyRead ==
  /\ \A a \in ForeignBacked : mem.heap[a] = InitHeap[a]
  /\ owned \notin ForeignBacked
  /\ holder \notin ForeignBacked
  /\ (last.mutable \/ last.owning) =>
        /\ last.ret \notin ForeignBacked
        /\ last.ret \in Addrs
        /\ mem.heap[last.ret].owner = "core"
  /\ (dir = "py2cpp" /\ last.ret \in ForeignBacked) =>
        last.op \in {"const ProtoType *", "const ProtoType &"}

C10_Witness ==
  /\ last.op = "move_only_holder_caster::load"
  /\ last.handle.kind = "fast"
  /\ last.ok
  /\ holder \in Addrs
  /\ mem.heap[holder].val = InitHeap[last.handle.obj].val
====
